---- MODULE Spec2Model ----
(***************************************************************************)
(* Model of apiMain.py: the in-memory session / message store, the relay   *)
(* of a user message to the upstream completion endpoint, and the paged    *)
(* query over a session's message log.                                     *)
(*                                                                         *)
(* The handlers are asyncio coroutines on one event loop: a handler runs   *)
(* atomically up to its next await.  create_session, query_messages and    *)
(* end_session contain no await and are one action each.  send_message     *)
(* awaits the upstream POST, so it is two actions: SendMessage (checks,    *)
(* append of the user message, id generation) and RelayReturn (the         *)
(* upstream outcome, append of the AI message, the response).              *)
(*                                                                         *)
(* Strings that are compared for order (sendTime) are sequences of digits  *)
(* compared as Python compares str; optional values are sequences of       *)
(* length at most one (None == <<>>).                                      *)
(***************************************************************************)
EXTENDS Integers, Sequences, FiniteSets, TLC

\* ------------------------------------------------------------------ bounds
MaxClock == 1
MaxLog == 4
NumCallers == 2
MaxPageNum == 2
MaxPageSize == 2

\* ------------------------------------------------------------------ inputs
SessionIds == {"s1", "s2"}
\* messageId is any str; "" is a legal value of the DTO field
UserMessageIds == {"cafe0001", ""}
\* str(uuid.uuid4())[:8]: eight hex characters, drawn at random
AiMessageIds == {"cafe0001", "cafe0002"}
Titles == {"t1", "t2"}
Contents == {"hello"}
UpstreamTexts == {"hi there"}
MessageTypes == {0}
Callers == 1 .. NumCallers

None == <<>>
Some(v) == <<v>>
\* Python truthiness of an Optional[str]: None and "" are both falsy
Truthy(opt, empty) == opt # None /\ opt[1] # empty

\* caller-supplied sendTime strings: absent, empty, and a digit string
CallerSendTimes == {None, Some(<<>>), Some(<<5>>)}
\* absent and empty (falsy like absent)
FalsySendTimes == {None, Some(<<>>)}
\* absent, and one above every clock reading
PageSendTimes == {None, Some(<<5>>)}

VARIABLES
    sessions,   \* dict sessionId -> session_info
    messages,   \* dict sessionId -> list of message dicts
    now,        \* latest reading of datetime.now()
    inflight,   \* send_message coroutines suspended in the upstream POST
    upstream,   \* number of POSTs issued to the completion endpoint
    resp        \* the last handler step: request and JSONResponse

vars == <<sessions, messages, now, inflight, upstream, resp>>


\* ----------------------------------------------------------- Python helpers
\* a < b for two str values (sequences of digit code points), as str.__lt__
StrLess(a, b) ==
    \E i \in 1 .. Len(b) :
        /\ \A j \in 1 .. (i - 1) : j <= Len(a) /\ a[j] = b[j]
        /\ (i > Len(a) \/ a[i] < b[i])

\* datetime.isoformat(): fixed-width, zero-padded
IsoFormat(t) == <<t \div 10, t % 10>>

\* datetime.now(): the wall clock, read again at every call; two readings
\* may coincide (clock granularity), a later reading is never smaller
ClockReadings == {t \in {now, now + 1} : t <= MaxClock}

\* list[start:end] with Python's clamping of out-of-range and negative bounds
PyIndex(i, n) == IF i < 0 THEN (IF i + n < 0 THEN 0 ELSE i + n)
                 ELSE (IF i > n THEN n ELSE i)
PySlice(list, start, end) ==
    LET lo == PyIndex(start, Len(list))
        hi == PyIndex(end, Len(list))
    IN  IF lo < hi THEN [k \in 1 .. (hi - lo) |-> list[lo + k]] ELSE <<>>

\* sorted(list, key=lambda x: x["sendTime"]) without reverse=True
RECURSIVE InsertAsc(_, _)
InsertAsc(sorted, x) ==
    IF sorted = <<>> THEN <<x>>
    ELSE IF StrLess(x.sendTime, Head(sorted).sendTime) THEN <<x>> \o sorted
    ELSE <<Head(sorted)>> \o InsertAsc(Tail(sorted), x)
RECURSIVE SortedBySendTimeAsc(_)
SortedBySendTimeAsc(list) ==
    IF list = <<>> THEN <<>>
    ELSE InsertAsc(SortedBySendTimeAsc(SubSeq(list, 1, Len(list) - 1)), list[Len(list)])

\* sorted(list, key=lambda x: x["sendTime"], reverse=True): a stable sort,
\* descending by key; elements with equal keys keep their order in list.
\* InsertDesc puts x behind every element whose key is not less than x's.
\* (The one-element set binds the sorted prefix as a value, computed once.)
RECURSIVE InsertDesc(_, _)
InsertDesc(sorted, x) ==
    IF sorted = <<>> THEN <<x>>
    ELSE IF StrLess(Head(sorted).sendTime, x.sendTime) THEN <<x>> \o sorted
    ELSE <<Head(sorted)>> \o InsertDesc(Tail(sorted), x)
RECURSIVE SortedBySendTimeDesc(_)
SortedBySendTimeDesc(list) ==
    IF list = <<>> THEN <<>>
    ELSE CHOOSE result \in
             {InsertDesc(sorted, list[Len(list)]) :
                  sorted \in {SortedBySendTimeDesc(SubSeq(list, 1, Len(list) - 1))}} : TRUE

\* next((i for i, msg in enumerate(view) if msg["messageId"] == id), None),
\* 0-based; -1 stands for None
StartIndex(view, id) ==
    IF \E i \in 1 .. Len(view) : view[i].messageId = id
    THEN (CHOOSE i \in 1 .. Len(view) :
              /\ view[i].messageId = id
              /\ \A j \in 1 .. (i - 1) : view[j].messageId # id) - 1
    ELSE -1

\* {k: v for k, v in msg.items() if k != "sender"}
WithoutSender(msg) ==
    [messageId |-> msg.messageId, sessionId |-> msg.sessionId,
     messageType |-> msg.messageType, content |-> msg.content,
     sendTime |-> msg.sendTime]

api_response(success, message, data) ==
    [success |-> success, message |-> message, data |-> data]

JSONResponse(content, status_code) ==
    [content |-> content, status_code |-> status_code]

\* the response texts of the handlers
MsgSessionExists == "session already exists"
MsgSessionCreated == "session created"
MsgIdMismatch == "path and body session id differ"
MsgSessionNotFound == "session not found"
MsgMessageHandled == "message handled"
MsgQueryOk == "query ok"
MsgSessionEnded == "session ended"

\* a handler step that suspended in an await and has returned nothing yet
Awaiting == JSONResponse(None, 0)

Init ==
    /\ sessions = << >>
    /\ messages = << >>
    /\ now = 0
    /\ inflight = << >>
    /\ upstream = 0
    /\ resp = [op |-> "start", req |-> None, res |-> Awaiting]

\* -------------------------------------------------------------- create_session
CreateAiSessionDTOs == [sessionId : SessionIds, title : Titles]

\* create_session without the assignment of line 87: no log is created
create_session_no_log(dto) ==
    IF dto.sessionId \in DOMAIN sessions
    THEN /\ resp' = [op |-> "create_session", req |-> dto,
                     res |-> JSONResponse(api_response(FALSE, MsgSessionExists, None), 400)]
         /\ UNCHANGED <<sessions, messages, now, inflight, upstream>>
    ELSE \E t \in ClockReadings :
         LET session_info == [sessionId |-> dto.sessionId, title |-> dto.title,
                              createTime |-> IsoFormat(t)]
         IN  /\ now' = t
             /\ sessions' = (dto.sessionId :> session_info) @@ sessions
             /\ resp' = [op |-> "create_session", req |-> dto,
                         res |-> JSONResponse(api_response(TRUE, MsgSessionCreated,
                                     [sessionId |-> dto.sessionId,
                                      createTime |-> session_info.createTime]), 201)]
             /\ UNCHANGED <<messages, inflight, upstream>>

\* create_session without the membership test of line 71
create_session_overwrites(dto) ==
    \E t \in ClockReadings :
    LET session_info == [sessionId |-> dto.sessionId, title |-> dto.title,
                         createTime |-> IsoFormat(t)]
    IN  /\ now' = t
        /\ sessions' = (dto.sessionId :> session_info) @@ sessions
        /\ messages' = (dto.sessionId :> <<>>) @@ messages
        /\ resp' = [op |-> "create_session", req |-> dto,
                    res |-> JSONResponse(api_response(FALSE, MsgSessionExists, None), 400)]
        /\ UNCHANGED <<inflight, upstream>>

create_session(dto) ==
    IF dto.sessionId \in DOMAIN sessions
    THEN /\ resp' = [op |-> "create_session", req |-> dto,
                     res |-> JSONResponse(api_response(FALSE, MsgSessionExists, None), 400)]
         /\ UNCHANGED <<sessions, messages, now, inflight, upstream>>
    ELSE \E t \in ClockReadings :
         LET session_info == [sessionId |-> dto.sessionId, title |-> dto.title,
                              createTime |-> IsoFormat(t)]
         IN  /\ now' = t
             /\ sessions' = (dto.sessionId :> session_info) @@ sessions
             /\ messages' = (dto.sessionId :> <<>>) @@ messages
             /\ resp' = [op |-> "create_session", req |-> dto,
                         res |-> JSONResponse(api_response(TRUE, MsgSessionCreated,
                                     [sessionId |-> dto.sessionId,
                                      createTime |-> session_info.createTime]), 201)]
             /\ UNCHANGED <<inflight, upstream>>

\* ---------------------------------------------------------------- send_message
SendMessageDTOs ==
    [sessionId : SessionIds, messageId : UserMessageIds, content : Contents,
     messageType : MessageTypes, sendTime : CallerSendTimes]

\* what the upstream POST can do
UpstreamOutcomes ==
    {"ok", "connection_error", "bad_status", "bad_content_type", "malformed_json",
     "missing_key", "empty_choices", "null_choices", "connect_timeout",
     "total_timeout"}

\* the exception the body of the inner try raises on each outcome ("none": it
\* completes and ai_content is choices[0].message.content)
Raised(outcome) ==
    CASE outcome = "ok" -> "none"
      [] outcome = "connection_error" -> "ClientConnectorError"
      [] outcome = "connect_timeout" -> "ServerTimeoutError"
      [] outcome = "total_timeout" -> "TimeoutError"
      [] outcome = "bad_status" -> "ClientResponseError"
      [] outcome = "bad_content_type" -> "ContentTypeError"
      [] outcome = "malformed_json" -> "JSONDecodeError"
      [] outcome = "missing_key" -> "KeyError"
      [] outcome = "empty_choices" -> "IndexError"
      [] outcome = "null_choices" -> "TypeError"

\* subclasses of aiohttp.ClientError
ClientErrors ==
    {"ClientConnectorError", "ServerTimeoutError", "ClientResponseError",
     "ContentTypeError"}

\* except (KeyError, json.JSONDecodeError)
ParseErrors == {"KeyError", "JSONDecodeError"}

\* the two fallback texts; the cause str(e) they embed is left out
Unavailable(exc) == "AI service unavailable"
ParseFailed(exc) == "AI response parse error"

\* messages stored in all logs, and appends still owed by suspended coroutines
RECURSIVE SumLen(_)
SumLen(S) == IF S = {} THEN 0
             ELSE LET sid == CHOOSE x \in S : TRUE
                  IN  Len(messages[sid]) + SumLen(S \ {sid})
Stored == SumLen(DOMAIN messages) + Cardinality(DOMAIN inflight)

\* send_message without the comparison of lines 112-117: the path's sessionId
\* is not checked against the body's
send_message_no_path_check(c, sessionId, dto, uuid4) ==
    /\ c \notin DOMAIN inflight
    /\ \A d \in Callers : d < c => d \in DOMAIN inflight
    /\ IF dto.sessionId \notin DOMAIN sessions
       THEN /\ resp' = [op |-> "send_message", req |-> [sessionId |-> sessionId, dto |-> dto],
                        res |-> JSONResponse(api_response(FALSE, MsgSessionNotFound, None), 404)]
            /\ UNCHANGED <<sessions, messages, now, inflight, upstream>>
       ELSE /\ Stored + 2 <= MaxLog
            /\ \E t \in (IF Truthy(dto.sendTime, <<>>) THEN {now} ELSE ClockReadings) :
               LET sendTime == IF Truthy(dto.sendTime, <<>>)
                               THEN dto.sendTime[1] ELSE IsoFormat(t)
                   user_message ==
                       [messageId |-> dto.messageId, sessionId |-> dto.sessionId,
                        messageType |-> dto.messageType, content |-> dto.content,
                        sendTime |-> sendTime, sender |-> "user"]
               IN  /\ now' = t
                   /\ messages' = [messages EXCEPT ![dto.sessionId] =
                                       Append(@, user_message)]
                   /\ inflight' = (c :> [dto |-> dto, ai_message_id |-> uuid4]) @@ inflight
                   /\ upstream' = upstream + 1
                   /\ resp' = [op |-> "send_message", req |-> [sessionId |-> sessionId, dto |-> dto], res |-> Awaiting]
                   /\ UNCHANGED sessions

\* send_message without the append of line 138: the user message is not stored
send_message_no_append(c, sessionId, dto, uuid4) ==
    /\ c \notin DOMAIN inflight
    /\ \A d \in Callers : d < c => d \in DOMAIN inflight
    /\ IF dto.sessionId # sessionId
       THEN /\ resp' = [op |-> "send_message", req |-> [sessionId |-> sessionId, dto |-> dto],
                        res |-> JSONResponse(api_response(FALSE, MsgIdMismatch, None), 400)]
            /\ UNCHANGED <<sessions, messages, now, inflight, upstream>>
       ELSE IF dto.sessionId \notin DOMAIN sessions
       THEN /\ resp' = [op |-> "send_message", req |-> [sessionId |-> sessionId, dto |-> dto],
                        res |-> JSONResponse(api_response(FALSE, MsgSessionNotFound, None), 404)]
            /\ UNCHANGED <<sessions, messages, now, inflight, upstream>>
       ELSE /\ Stored + 2 <= MaxLog
            /\ \E t \in (IF Truthy(dto.sendTime, <<>>) THEN {now} ELSE ClockReadings) :
                   /\ now' = t
                   /\ inflight' = (c :> [dto |-> dto, ai_message_id |-> uuid4]) @@ inflight
                   /\ upstream' = upstream + 1
                   /\ resp' = [op |-> "send_message", req |-> [sessionId |-> sessionId, dto |-> dto], res |-> Awaiting]
                   /\ UNCHANGED <<sessions, messages>>

\* send_message with messages.setdefault(sessionId, []) in place of the test of
\* line 120
send_message_setdefault(c, sessionId, dto, uuid4) ==
    /\ c \notin DOMAIN inflight
    /\ \A d \in Callers : d < c => d \in DOMAIN inflight
    /\ dto.sessionId = sessionId
    /\ Stored + 2 <= MaxLog
    /\ LET old == IF dto.sessionId \in DOMAIN messages
                  THEN messages[dto.sessionId] ELSE <<>>
           user_message ==
               [messageId |-> dto.messageId, sessionId |-> dto.sessionId,
                messageType |-> dto.messageType, content |-> dto.content,
                sendTime |-> IsoFormat(now), sender |-> "user"]
       IN  /\ messages' = (dto.sessionId :> Append(old, user_message)) @@ messages
           /\ inflight' = (c :> [dto |-> dto, ai_message_id |-> uuid4]) @@ inflight
           /\ upstream' = upstream + 1
           /\ resp' = [op |-> "send_message", req |-> [sessionId |-> sessionId, dto |-> dto],
                       res |-> Awaiting]
           /\ UNCHANGED <<sessions, now>>

\* send_message up to the await of the upstream POST; the coroutine takes the
\* first free slot c, and uuid4 is the id drawn for the AI message
send_message(c, sessionId, dto, uuid4) ==
    /\ c \notin DOMAIN inflight
    /\ \A d \in Callers : d < c => d \in DOMAIN inflight
    /\ IF dto.sessionId # sessionId
       THEN /\ resp' = [op |-> "send_message", req |-> [sessionId |-> sessionId, dto |-> dto],
                        res |-> JSONResponse(api_response(FALSE, MsgIdMismatch, None), 400)]
            /\ UNCHANGED <<sessions, messages, now, inflight, upstream>>
       ELSE IF dto.sessionId \notin DOMAIN sessions
       THEN /\ resp' = [op |-> "send_message", req |-> [sessionId |-> sessionId, dto |-> dto],
                        res |-> JSONResponse(api_response(FALSE, MsgSessionNotFound, None), 404)]
            /\ UNCHANGED <<sessions, messages, now, inflight, upstream>>
       ELSE /\ Stored + 2 <= MaxLog
            /\ \E t \in (IF Truthy(dto.sendTime, <<>>) THEN {now} ELSE ClockReadings) :
               LET ai_message_id == uuid4
                   sendTime == IF Truthy(dto.sendTime, <<>>)
                               THEN dto.sendTime[1] ELSE IsoFormat(t)
                   user_message ==
                       [messageId |-> dto.messageId, sessionId |-> dto.sessionId,
                        messageType |-> dto.messageType, content |-> dto.content,
                        sendTime |-> sendTime, sender |-> "user"]
               IN  /\ now' = t
                   /\ messages' = [messages EXCEPT ![dto.sessionId] =
                                       Append(@, user_message)]
                   /\ inflight' = (c :> [dto |-> dto, ai_message_id |-> ai_message_id])
                                      @@ inflight
                   /\ upstream' = upstream + 1
                   /\ resp' = [op |-> "send_message", req |-> [sessionId |-> sessionId, dto |-> dto], res |-> Awaiting]
                   /\ UNCHANGED sessions

\* the AI message stored as snapshot + [ai_message], the snapshot being the log
\* as this coroutine left it before the await
RelayReturn_stale_log(c, outcome, text) ==
    /\ c \in DOMAIN inflight
    /\ LET dto == inflight[c].dto
           log == messages[dto.sessionId]
           own == CHOOSE i \in 1 .. Len(log) :
                      /\ log[i].messageId = dto.messageId /\ log[i].sender = "user"
                      /\ \A j \in (i + 1) .. Len(log) :
                             ~(log[j].messageId = dto.messageId /\ log[j].sender = "user")
           ai_message ==
               [messageId |-> inflight[c].ai_message_id, sessionId |-> dto.sessionId,
                messageType |-> 0, content |-> text, sendTime |-> IsoFormat(now),
                sender |-> "ai"]
       IN  /\ inflight' = [d \in DOMAIN inflight \ {c} |-> inflight[d]]
           /\ messages' = [messages EXCEPT ![dto.sessionId] =
                               Append(SubSeq(log, 1, own), ai_message)]
           /\ resp' = [op |-> "relay_return", req |-> [sessionId |-> dto.sessionId, dto |-> dto],
                       res |-> JSONResponse(api_response(TRUE, MsgMessageHandled,
                                   [userMessageId |-> dto.messageId,
                                    aiMessage |-> ai_message]), 200)]
           /\ UNCHANGED <<sessions, upstream, now>>

\* send_message from the completion of the upstream POST to its return
RelayReturn(c, outcome, text) ==
    /\ c \in DOMAIN inflight
    /\ LET dto == inflight[c].dto
           exc == Raised(outcome)
           caught == exc = "none" \/ exc \in ClientErrors \/ exc \in ParseErrors
           ai_content == IF exc = "none" THEN text
                         ELSE IF exc \in ClientErrors THEN Unavailable(exc)
                         ELSE ParseFailed(exc)
       IN  /\ inflight' = [d \in DOMAIN inflight \ {c} |-> inflight[d]]
           /\ IF caught
              THEN \E t \in ClockReadings :
                   LET ai_message ==
                           [messageId |-> inflight[c].ai_message_id,
                            sessionId |-> dto.sessionId, messageType |-> 0,
                            content |-> ai_content, sendTime |-> IsoFormat(t),
                            sender |-> "ai"]
                   IN  /\ now' = t
                       /\ messages' = [messages EXCEPT ![dto.sessionId] =
                                           Append(@, ai_message)]
                       /\ resp' = [op |-> "relay_return", req |-> [sessionId |-> dto.sessionId, dto |-> dto],
                                   res |-> JSONResponse(api_response(TRUE, MsgMessageHandled,
                                               [userMessageId |-> dto.messageId,
                                                aiMessage |-> ai_message]), 200)]
              ELSE \* the exception leaves the inner try and reaches except Exception
                   /\ resp' = [op |-> "relay_return", req |-> [sessionId |-> dto.sessionId, dto |-> dto],
                               res |-> JSONResponse(api_response(FALSE, exc, None), 400)]
                   /\ UNCHANGED <<messages, now>>
           /\ UNCHANGED <<sessions, upstream>>

\* -------------------------------------------------------------- query_messages
QueryRequests ==
    [sessionId : SessionIds,
     startMessageId : {None} \cup {Some(m) : m \in UserMessageIds \cup AiMessageIds},
     pageNum : 1 .. MaxPageNum, pageSize : (1 .. MaxPageSize) \cup {10}]
\* the defaults of the handler's signature: no cursor, pageNum 1, pageSize 10
DefaultQueries ==
    [sessionId : SessionIds, startMessageId : {None}, pageNum : {1}, pageSize : {10}]

\* the filter with an unknown startMessageId leaving nothing
FilteredView_unknown_empty(list, startMessageId) ==
    LET session_messages == SortedBySendTimeDesc(list)
        start_index == StartIndex(session_messages, startMessageId[1])
    IN  IF Truthy(startMessageId, "")
        THEN PySlice(session_messages, start_index + 1,
                     IF start_index = -1 THEN 0 ELSE Len(session_messages))
        ELSE session_messages

\* the view after the startMessageId filter
FilteredView(list, startMessageId) ==
    LET session_messages == SortedBySendTimeDesc(list)
        start_index == StartIndex(session_messages, startMessageId[1])
    IN  IF Truthy(startMessageId, "") /\ start_index # -1
        THEN PySlice(session_messages, start_index + 1, Len(session_messages))
        ELSE session_messages

\* the page taken with start = pageNum * pageSize
Page_one_based(list, startMessageId, pageNum, pageSize) ==
    LET session_messages == FilteredView(list, startMessageId)
        total == Len(session_messages)
        start == pageNum * pageSize
        end == start + pageSize
        page_messages == PySlice(session_messages, start, end)
    IN  [total |-> total, pageSize |-> pageSize, current |-> pageNum,
         records |-> [k \in 1 .. Len(page_messages) |-> WithoutSender(page_messages[k])]]

\* the response data of query_messages on a log; session_messages and
\* page_messages are bound as values, each computed once as in lines 228-234
Page(list, startMessageId, pageNum, pageSize) ==
    LET start == (pageNum - 1) * pageSize
        end == start + pageSize
    IN  CHOOSE data \in
            {[total |-> Len(session_messages), pageSize |-> pageSize, current |-> pageNum,
              records |-> [k \in 1 .. Len(page_messages) |->
                              WithoutSender(page_messages[k])]] :
                 <<session_messages, page_messages>> \in
                     {<<view, PySlice(view, start, end)>> :
                          view \in {FilteredView(list, startMessageId)}}} : TRUE

\* query_messages waiting for a lock that send_message holds on the session
\* across its upstream call
query_messages_locked(q) ==
    /\ \A c \in DOMAIN inflight : inflight[c].dto.sessionId # q.sessionId
    /\ resp' = [op |-> "query_messages", req |-> q,
                res |-> IF q.sessionId \notin DOMAIN messages
                        THEN JSONResponse(api_response(FALSE, MsgSessionNotFound, None), 404)
                        ELSE JSONResponse(api_response(TRUE, MsgQueryOk,
                                 Page(messages[q.sessionId], q.startMessageId,
                                      q.pageNum, q.pageSize)), 200)]
    /\ UNCHANGED <<sessions, messages, now, inflight, upstream>>

\* query_messages sorting the stored list in place (list.sort) before paging
query_messages_sort_in_place(q) ==
    /\ resp' = [op |-> "query_messages", req |-> q,
                res |-> IF q.sessionId \notin DOMAIN messages
                        THEN JSONResponse(api_response(FALSE, MsgSessionNotFound, None), 404)
                        ELSE JSONResponse(api_response(TRUE, MsgQueryOk,
                                 Page(messages[q.sessionId], q.startMessageId,
                                      q.pageNum, q.pageSize)), 200)]
    /\ messages' = IF q.sessionId \notin DOMAIN messages THEN messages
                   ELSE [messages EXCEPT ![q.sessionId] = SortedBySendTimeDesc(@)]
    /\ UNCHANGED <<sessions, now, inflight, upstream>>

query_messages(q) ==
    /\ resp' = [op |-> "query_messages", req |-> q,
                res |-> IF q.sessionId \notin DOMAIN messages
                        THEN JSONResponse(api_response(FALSE, MsgSessionNotFound, None), 404)
                        ELSE JSONResponse(api_response(TRUE, MsgQueryOk,
                                 Page(messages[q.sessionId], q.startMessageId,
                                      q.pageNum, q.pageSize)), 200)]
    /\ UNCHANGED <<sessions, messages, now, inflight, upstream>>

\* ----------------------------------------------------------------- end_session
\* end_session as a switch: a session that is ended is opened again
end_session_toggles(sessionId) ==
    IF sessionId \notin DOMAIN sessions
    THEN /\ resp' = [op |-> "end_session", req |-> sessionId,
                     res |-> JSONResponse(api_response(FALSE, MsgSessionNotFound, None), 404)]
         /\ UNCHANGED <<sessions, messages, now, inflight, upstream>>
    ELSE \E t \in ClockReadings :
         /\ now' = t
         /\ sessions' = [sessions EXCEPT ![sessionId] =
                            IF "status" \in DOMAIN @
                            THEN [k \in DOMAIN @ \ {"status", "endTime"} |-> @[k]]
                            ELSE [status |-> "ended", endTime |-> IsoFormat(t)] @@ @]
         /\ resp' = [op |-> "end_session", req |-> sessionId,
                     res |-> JSONResponse(api_response(TRUE, MsgSessionEnded,
                                 [sessionId |-> sessionId, endTime |-> IsoFormat(t)]), 200)]
         /\ UNCHANGED <<messages, inflight, upstream>>

\* end_session refusing a session that is ended already
end_session_once(sessionId) ==
    IF sessionId \notin DOMAIN sessions
    THEN /\ resp' = [op |-> "end_session", req |-> sessionId,
                     res |-> JSONResponse(api_response(FALSE, MsgSessionNotFound, None), 404)]
         /\ UNCHANGED <<sessions, messages, now, inflight, upstream>>
    ELSE IF "status" \in DOMAIN sessions[sessionId]
    THEN /\ resp' = [op |-> "end_session", req |-> sessionId,
                     res |-> JSONResponse(api_response(FALSE, MsgSessionEnded, None), 400)]
         /\ UNCHANGED <<sessions, messages, now, inflight, upstream>>
    ELSE \E t \in ClockReadings :
         /\ now' = t
         /\ sessions' = [sessions EXCEPT ![sessionId] =
                            [status |-> "ended", endTime |-> IsoFormat(t)] @@ @]
         /\ resp' = [op |-> "end_session", req |-> sessionId,
                     res |-> JSONResponse(api_response(TRUE, MsgSessionEnded,
                                 [sessionId |-> sessionId, endTime |-> IsoFormat(t)]), 200)]
         /\ UNCHANGED <<messages, inflight, upstream>>

end_session(sessionId) ==
    IF sessionId \notin DOMAIN sessions
    THEN /\ resp' = [op |-> "end_session", req |-> sessionId,
                     res |-> JSONResponse(api_response(FALSE, MsgSessionNotFound, None), 404)]
         /\ UNCHANGED <<sessions, messages, now, inflight, upstream>>
    ELSE \E t \in ClockReadings :
         /\ now' = t
         /\ sessions' = [sessions EXCEPT ![sessionId] =
                            [status |-> "ended", endTime |-> IsoFormat(t)] @@ @]
         /\ resp' = [op |-> "end_session", req |-> sessionId,
                     res |-> JSONResponse(api_response(TRUE, MsgSessionEnded,
                                 [sessionId |-> sessionId, endTime |-> IsoFormat(t)]), 200)]
         /\ UNCHANGED <<messages, inflight, upstream>>

\* -------------------------------------------------------------- specifications
\* one step of the service with its inputs drawn from the given sets
Step(Creates, Cs, Sends, Uuids, Outcomes, Queries, Ends) ==
    \/ \E dto \in Creates : create_session(dto)
    \/ \E c \in Cs, sessionId \in SessionIds, dto \in Sends, uuid4 \in Uuids :
           send_message(c, sessionId, dto, uuid4)
    \/ \E c \in Cs, outcome \in Outcomes, text \in UpstreamTexts :
           RelayReturn(c, outcome, text)
    \/ \E q \in Queries : query_messages(q)
    \/ \E sessionId \in Ends : end_session(sessionId)

\* Sessions: both session ids and both titles, requests overlapping in the
\* upstream call, one message id, an upstream that answers, the default query.
SessionSends ==
    {dto \in SendMessageDTOs : dto.messageId = "cafe0001" /\ dto.sendTime = None}

Next ==
    Step(CreateAiSessionDTOs, Callers, SessionSends, {"cafe0002"}, {"ok"},
         DefaultQueries, SessionIds)

Spec == Init /\ [][Next]_vars

\* Relay: one session, one request at a time, every message id, every drawn
\* AI id and every upstream outcome.
OneSession ==
    {dto \in CreateAiSessionDTOs : dto.sessionId = "s1" /\ dto.title = "t1"}
RelaySends ==
    {dto \in SendMessageDTOs : dto.sessionId = "s1" /\ dto.sendTime \in FalsySendTimes}
OneSessionQueries == {q \in DefaultQueries : q.sessionId = "s1"}

NextRelay ==
    Step(OneSession, {1}, RelaySends, AiMessageIds, UpstreamOutcomes,
         OneSessionQueries, {"s1"})

SpecRelay == Init /\ [][NextRelay]_vars

\* Concurrency: one session, requests overlapping in the upstream call, every
\* message id, an upstream that answers or makes the handler fail.
ConcurrentSends ==
    {dto \in SendMessageDTOs : dto.sessionId = "s1" /\ dto.sendTime = None}

NextSend ==
    Step(OneSession, Callers, ConcurrentSends, {"cafe0002"}, {"ok", "empty_choices"},
         OneSessionQueries, {"s1"})

SpecSend == Init /\ [][NextSend]_vars

\* Paging: one session, one request at a time, every query.
PageSends ==
    {dto \in SendMessageDTOs : dto.sessionId = "s1" /\ dto.sendTime \in PageSendTimes}
PageQueries == {q \in QueryRequests : q.sessionId = "s1"}

NextPage ==
    Step(OneSession, {1}, PageSends, {"cafe0002"}, {"ok"}, PageQueries, {"s1"})

SpecPage == Init /\ [][NextPage]_vars

\* ====================================================================== claims
Log(sid) == messages[sid]
Succeeded(r) == r.res.status_code \in {200, 201} /\ r.res.content.success
Failed(r, status_code, message) ==
    /\ r.res.status_code = status_code
    /\ ~r.res.content.success
    /\ r.res.content.message = message

\* C1: in every reachable state the message ids inside one session's log are
\* pairwise distinct (a send whose messageId is already in the log is refused
\* and leaves the log unchanged).
C1_DistinctMessageIds ==
    \A sid \in DOMAIN messages :
        \A i, j \in 1 .. Len(Log(sid)) :
            i # j => Log(sid)[i].messageId # Log(sid)[j].messageId

\* C2: whatever the upstream did, a send_message on an existing session ends
\* with a success response carrying an AI message (sender ai, type 0, the
\* session's id, a content) that is the last entry of the session's log.
C2_RelayNeverFailsTheSend ==
    resp.op = "relay_return" =>
        /\ Succeeded(resp)
        /\ LET ai == resp.res.content.data.aiMessage
               sid == resp.req.dto.sessionId
           IN  /\ ai.sender = "ai" /\ ai.messageType = 0 /\ ai.sessionId = sid
               /\ resp.res.content.data.userMessageId = resp.req.dto.messageId
               /\ Len(Log(sid)) > 0 /\ Log(sid)[Len(Log(sid))] = ai

\* C3: create_session with an id that is present fails (400, session exists)
\* and leaves the session's stored dict and its message log as they were.
C3_CreateExistingChangesNothing ==
    [][(resp'.op = "create_session" /\ resp'.req.sessionId \in DOMAIN sessions) =>
          /\ Failed(resp', 400, MsgSessionExists)
          /\ sessions' = sessions
          /\ messages' = messages]_vars

\* C3 witness: a refused create that carried another title, on a session that
\* is ended and has messages.
C3_Witness ==
    /\ resp.op = "create_session"
    /\ Failed(resp, 400, MsgSessionExists)
    /\ resp.req.title # sessions[resp.req.sessionId].title
    /\ "status" \in DOMAIN sessions[resp.req.sessionId]
    /\ Len(Log(resp.req.sessionId)) > 0

\* C4: send_message on a session id that was never created fails (404, session
\* not found), appends to no log, creates no session and no log, and issues no
\* upstream call.
C4_SendToMissingSession ==
    [][(/\ resp'.op = "send_message"
        /\ resp'.req.sessionId = resp'.req.dto.sessionId
        /\ resp'.req.dto.sessionId \notin DOMAIN sessions) =>
          /\ Failed(resp', 404, MsgSessionNotFound)
          /\ messages' = messages
          /\ sessions' = sessions
          /\ upstream' = upstream
          /\ inflight' = inflight]_vars

\* C4 witness: a refused send on an absent session while the other session
\* exists and holds messages.
C4_Witness ==
    /\ resp.op = "send_message"
    /\ Failed(resp, 404, MsgSessionNotFound)
    /\ resp.req.dto.sessionId \notin DOMAIN sessions
    /\ \E sid \in DOMAIN messages : Len(Log(sid)) > 0

\* ---------------------------------------------------------------- paging
Min(a, b) == IF a < b THEN a ELSE b
Max(a, b) == IF a < b THEN b ELSE a
IsQuery(r) == r.op = "query_messages" /\ Succeeded(r)
Data(r) == r.res.content.data
\* the records of the page pageNum of a view, by offsets
RecordsAt(view, pageNum, pageSize) ==
    LET off == (pageNum - 1) * pageSize
        cnt == Min(pageSize, Max(0, Len(view) - off))
    IN  [k \in 1 .. cnt |-> WithoutSender(view[off + k])]
\* how often x occurs in a sequence
Count(seq, x) == Cardinality({k \in 1 .. Len(seq) : seq[k] = x})

\* C5: a query without startMessageId returns the session's messages by
\* sendTime descending (the order of the stored sendTime strings): no record
\* is followed by one with a greater sendTime, and a page that takes the whole
\* log holds the log's messages, each as often as the log does.
C5_PageSortedDescending ==
    (IsQuery(resp) /\ resp.req.startMessageId = None /\ resp.req.pageNum >= 1) =>
        LET recs == Data(resp).records
            log == Log(resp.req.sessionId)
        IN  /\ \A i, j \in 1 .. Len(recs) :
                   i < j => ~StrLess(recs[i].sendTime, recs[j].sendTime)
            /\ (resp.req.pageNum = 1 /\ resp.req.pageSize >= Len(log)) =>
                   /\ Len(recs) = Len(log)
                   /\ \A k \in 1 .. Len(log) :
                          Count(recs, WithoutSender(log[k])) =
                              Count([m \in 1 .. Len(log) |-> WithoutSender(log[m])],
                                    WithoutSender(log[k]))

\* C5 witness: three messages appended in ascending sendTime order come back in
\* strictly descending order.
C5_Witness ==
    /\ IsQuery(resp) /\ resp.req.startMessageId = None /\ resp.req.pageNum = 1
    /\ Len(Data(resp).records) = 3
    /\ LET recs == Data(resp).records
           log == Log(resp.req.sessionId)
       IN  /\ StrLess(recs[2].sendTime, recs[1].sendTime)
           /\ StrLess(recs[3].sendTime, recs[2].sendTime)
           /\ StrLess(log[1].sendTime, log[2].sendTime)
           /\ StrLess(log[2].sendTime, log[3].sendTime)

\* C6: for pageNum >= 1 and pageSize in 1..100, total is the length of the
\* filtered view and records are the view's elements at offsets
\* [(pageNum-1)*pageSize, (pageNum-1)*pageSize + pageSize): there are
\* min(pageSize, max(0, total - (pageNum-1)*pageSize)) of them, none past the
\* end, with total unaffected.
C6_PageSlice ==
    (IsQuery(resp) /\ resp.req.pageNum >= 1 /\ resp.req.pageSize \in 1 .. 100) =>
        LET view == FilteredView(Log(resp.req.sessionId), resp.req.startMessageId)
        IN  /\ Data(resp).total = Len(view)
            /\ Data(resp).records = RecordsAt(view, resp.req.pageNum, resp.req.pageSize)
            /\ Data(resp).pageSize = resp.req.pageSize
            /\ Data(resp).current = resp.req.pageNum

\* C6 witness: the last, partly filled page of a larger view.
C6_Witness ==
    /\ IsQuery(resp) /\ resp.req.pageNum = 2 /\ resp.req.pageSize = 2
    /\ Data(resp).total = 3
    /\ Len(Data(resp).records) = 1

\* C7: when startMessageId names the message at position k of the sorted view,
\* the filtered view is the elements at positions greater than k: total is
\* their number and the records are their pages.
C7_CursorDropsThroughNamedMessage ==
    (IsQuery(resp) /\ resp.req.startMessageId # None /\ resp.req.pageNum >= 1) =>
        LET view == SortedBySendTimeDesc(Log(resp.req.sessionId))
            n == Len(view)
        IN  \A k \in 1 .. n :
                view[k].messageId = resp.req.startMessageId[1] =>
                    /\ Data(resp).total = n - k
                    /\ Data(resp).records =
                           RecordsAt(SubSeq(view, k + 1, n), resp.req.pageNum,
                                     resp.req.pageSize)

\* C8: a query whose startMessageId matches no message of the log succeeds with
\* the records and the total of the same query without startMessageId.
C8_UnknownCursorIgnored ==
    (/\ resp.op = "query_messages"
     /\ resp.req.sessionId \in DOMAIN messages
     /\ resp.req.startMessageId # None
     /\ \A k \in 1 .. Len(Log(resp.req.sessionId)) :
            Log(resp.req.sessionId)[k].messageId # resp.req.startMessageId[1]) =>
        /\ Succeeded(resp)
        /\ Data(resp) = Page(Log(resp.req.sessionId), None, resp.req.pageNum,
                             resp.req.pageSize)

\* C8 witness: an unknown, non-empty startMessageId on a log with messages, all
\* of them returned.
C8_Witness ==
    /\ IsQuery(resp)
    /\ resp.req.startMessageId = Some("cafe0001")
    /\ \A k \in 1 .. Len(Log(resp.req.sessionId)) :
           Log(resp.req.sessionId)[k].messageId # "cafe0001"
    /\ Len(Log(resp.req.sessionId)) = 2
    /\ Len(Data(resp).records) = 2

\* ----------------------------------------------------------- concurrent sends
\* the entries of a log that are the user message with the given id
UserEntries(sid, id) ==
    {k \in 1 .. Len(Log(sid)) : Log(sid)[k].sender = "user" /\ Log(sid)[k].messageId = id}
RECURSIVE UserCount(_)
UserCount(S) ==
    IF S = {} THEN 0
    ELSE LET sid == CHOOSE x \in S : TRUE
         IN  Cardinality({k \in 1 .. Len(Log(sid)) : Log(sid)[k].sender = "user"})
                 + UserCount(S \ {sid})

\* C9: under every interleaving of concurrent send_message calls on one session
\* no user message is lost or overwritten and no call is refused: the logs hold
\* as many user messages as sends were accepted, every suspended call's
\* user message is in the log, calls in flight with distinct ids are there
\* exactly once, and a send on an existing session is always accepted.
C9_ConcurrentSendsKept ==
    /\ UserCount(DOMAIN messages) = upstream
    /\ \A c \in DOMAIN inflight :
           UserEntries(inflight[c].dto.sessionId, inflight[c].dto.messageId) # {}
    /\ (/\ upstream = Cardinality(DOMAIN inflight)
        /\ \A c, d \in DOMAIN inflight :
               c # d => inflight[c].dto.messageId # inflight[d].dto.messageId) =>
           \A c \in DOMAIN inflight :
               Cardinality(UserEntries(inflight[c].dto.sessionId,
                                       inflight[c].dto.messageId)) = 1
    /\ (/\ resp.op = "send_message"
        /\ resp.req.sessionId = resp.req.dto.sessionId
        /\ resp.req.dto.sessionId \in DOMAIN sessions) => resp.res = Awaiting

\* C9 witness: two calls with distinct ids overlapped on s1 (both user messages
\* were appended before either reply) and both have completed.
C9_Witness ==
    /\ inflight = << >>
    /\ upstream = 2
    /\ "s1" \in DOMAIN messages
    /\ Len(Log("s1")) = 4
    /\ Log("s1")[1].sender = "user" /\ Log("s1")[2].sender = "user"
    /\ Log("s1")[1].messageId # Log("s1")[2].messageId
    /\ Log("s1")[3].sender = "ai" /\ Log("s1")[4].sender = "ai"
    /\ Cardinality(UserEntries("s1", Log("s1")[1].messageId)) = 1
    /\ Cardinality(UserEntries("s1", Log("s1")[2].messageId)) = 1

\* C10: after create_session(s), one send_message on s without a sendTime and a
\* successful upstream reply, the query (pageNum 1, pageSize 10, no
\* startMessageId) returns total 2 and two records, the AI message first and
\* the user message second.
C10_ReplyListedFirst ==
    [][(/\ resp.op = "relay_return" /\ Succeeded(resp)
        /\ Data(resp).aiMessage.content \in UpstreamTexts
        /\ ~Truthy(resp.req.dto.sendTime, <<>>)
        /\ upstream = 1
        /\ Len(Log(resp.req.sessionId)) = 2
        /\ resp'.op = "query_messages"
        /\ resp'.req = [sessionId |-> resp.req.sessionId, startMessageId |-> None,
                        pageNum |-> 1, pageSize |-> 10]) =>
          /\ Succeeded(resp')
          /\ Data(resp').total = 2
          /\ Data(resp').records =
                 <<WithoutSender(Log(resp.req.sessionId)[2]),
                   WithoutSender(Log(resp.req.sessionId)[1])>>]_vars

\* ------------------------------------------------------------------ the relay
\* the three kinds of upstream outcome: a well-formed success response, a
\* transport failure (connection error, timeout, non-success status), and a
\* success response that does not parse into choices[0].message.content
TransportFailures == {"connection_error", "connect_timeout", "total_timeout", "bad_status"}
Unparseable ==
    {"bad_content_type", "malformed_json", "missing_key", "empty_choices", "null_choices"}
\* the content of the AI message the outcome calls for
RelayResult(outcome, text) ==
    IF outcome = "ok" THEN text
    ELSE IF outcome \in TransportFailures THEN Unavailable(Raised(outcome))
    ELSE ParseFailed(Raised(outcome))

\* C11: the AI message appended when the upstream POST returns is determined by
\* the outcome: the upstream text verbatim on a well-formed success, the
\* "service unavailable" fallback on every transport failure, the "response
\* parse error" fallback on every success response that cannot be parsed.
C11_RelayResultByOutcome ==
    [][\A c \in Callers, outcome \in UpstreamOutcomes, text \in UpstreamTexts :
           RelayReturn(c, outcome, text) =>
               LET log == messages'[inflight[c].dto.sessionId]
               IN  /\ Len(log) = Len(messages[inflight[c].dto.sessionId]) + 1
                   /\ log[Len(log)].sender = "ai"
                   /\ log[Len(log)].content = RelayResult(outcome, text)]_vars

\* ---------------------------------------------------------------- end_session
\* C12: end_session on an absent id fails (404, session not found) and changes
\* nothing; on a present session, ended before or not, it succeeds, the stored
\* status is "ended" and the stored endTime is the stamp of this call (the one
\* returned), and the session's id, title, createTime and log, like every
\* other session, are as before.
C12_EndSession ==
    [][resp'.op = "end_session" =>
          IF resp'.req \notin DOMAIN sessions
          THEN /\ Failed(resp', 404, MsgSessionNotFound)
               /\ UNCHANGED <<sessions, messages, now, inflight, upstream>>
          ELSE /\ Succeeded(resp')
               /\ DOMAIN sessions' = DOMAIN sessions
               /\ sessions'[resp'.req].status = "ended"
               /\ sessions'[resp'.req].endTime = IsoFormat(now')
               /\ Data(resp') = [sessionId |-> resp'.req, endTime |-> IsoFormat(now')]
               /\ \A k \in {"sessionId", "title", "createTime"} :
                      sessions'[resp'.req][k] = sessions[resp'.req][k]
               /\ DOMAIN sessions'[resp'.req] =
                      DOMAIN sessions[resp'.req] \cup {"status", "endTime"}
               /\ \A sid \in DOMAIN sessions \ {resp'.req} : sessions'[sid] = sessions[sid]
               /\ UNCHANGED <<messages, inflight, upstream>>]_vars

\* C12 witness: a session with messages ended at a stamp later than its
\* createTime, its title kept, the other session present and not ended.
C12_Witness ==
    /\ resp.op = "end_session" /\ Succeeded(resp)
    /\ sessions[resp.req].status = "ended"
    /\ StrLess(sessions[resp.req].createTime, sessions[resp.req].endTime)
    /\ sessions[resp.req].title = "t2"
    /\ Len(Log(resp.req)) > 0
    /\ \E sid \in DOMAIN sessions : "status" \notin DOMAIN sessions[sid]

\* ------------------------------------------------------------- equal sendTime
\* the position of a record in a page that holds it once
Pos(recs, x) == CHOOSE k \in 1 .. Len(recs) : recs[k] = x

\* C13: of two messages of a log with equal sendTime, the one appended later
\* comes first in the view query_messages returns (stated for logs whose
\* messages differ pairwise, on the page that takes the whole log).
C13_TiesLatestFirst ==
    (/\ IsQuery(resp) /\ resp.req.startMessageId = None /\ resp.req.pageNum = 1
     /\ resp.req.pageSize >= Len(Log(resp.req.sessionId))
     /\ \A i, j \in 1 .. Len(Log(resp.req.sessionId)) :
            i # j => WithoutSender(Log(resp.req.sessionId)[i]) #
                         WithoutSender(Log(resp.req.sessionId)[j])) =>
        LET recs == Data(resp).records
            log == Log(resp.req.sessionId)
        IN  \A i, j \in 1 .. Len(log) :
                (i < j /\ log[i].sendTime = log[j].sendTime) =>
                    Pos(recs, WithoutSender(log[j])) < Pos(recs, WithoutSender(log[i]))

\* ------------------------------------------------------------------ lifecycle
\* the status of a stored session: create_session stores no status key and
\* end_session stores status = "ended", so a dict without the key is open
Status(session_info) ==
    IF "status" \in DOMAIN session_info THEN session_info.status ELSE "open"

\* C14: a session is open when created, the only change of a status is from
\* open to ended, made by end_session on that session, and a session that is
\* ended stays stored and ended whatever step follows.
C14_OpenThenEnded ==
    [][/\ \A sid \in DOMAIN sessions' \ DOMAIN sessions :
              /\ Status(sessions'[sid]) = "open"
              /\ resp'.op = "create_session" /\ resp'.req.sessionId = sid
       /\ \A sid \in DOMAIN sessions :
              /\ sid \in DOMAIN sessions'
              /\ Status(sessions'[sid]) \in {"open", "ended"}
              /\ Status(sessions'[sid]) # Status(sessions[sid]) =>
                     /\ Status(sessions[sid]) = "open"
                     /\ Status(sessions'[sid]) = "ended"
                     /\ resp'.op = "end_session" /\ resp'.req = sid
              /\ Status(sessions[sid]) = "ended" => Status(sessions'[sid]) = "ended"]_vars

\* C14 witness: a create_session on a session that is ended was refused and
\* the session, which holds messages, is still ended.
C14_Witness ==
    /\ resp.op = "create_session"
    /\ Failed(resp, 400, MsgSessionExists)
    /\ Status(sessions[resp.req.sessionId]) = "ended"
    /\ Len(Log(resp.req.sessionId)) = 2
    /\ \E sid \in DOMAIN sessions : Status(sessions[sid]) = "open"

\* ---------------------------------------------------------------- append-only
\* a is an initial segment of b
IsPrefix(a, b) == Len(a) <= Len(b) /\ SubSeq(b, 1, Len(a)) = a

\* C15: every step, under every interleaving of the handlers, leaves each
\* session's log an extension of what it was (nothing removed, reordered or
\* modified), and a query_messages step leaves every log as it was.
C15_LogAppendOnly ==
    [][/\ \A sid \in DOMAIN messages :
              sid \in DOMAIN messages' /\ IsPrefix(messages[sid], messages'[sid])
       /\ resp'.op = "query_messages" => messages' = messages]_vars

\* C15 witness: a query answered while a send_message is suspended, on a log
\* of three messages whose order differs from the order of the page returned.
C15_Witness ==
    /\ IsQuery(resp)
    /\ inflight # << >>
    /\ Len(Log(resp.req.sessionId)) = 3
    /\ Len(Data(resp).records) = 3
    /\ Data(resp).records[1] # WithoutSender(Log(resp.req.sessionId)[1])

\* ------------------------------------------------------- user message first
\* the entries of the first k of a log sent by sender
SentBy(log, k, sender) == Cardinality({i \in 1 .. k : log[i].sender = sender})

\* C16: under every interleaving of send_message calls, the step that appends
\* an AI message appends it behind the user message of its own request, and in
\* every log each AI message has a user message of its own before it: up to
\* any AI message the log holds at least as many user messages as AI messages.
C16_UserMessageBeforeReply ==
    [][/\ \A sid \in DOMAIN messages' :
              \A k \in 1 .. Len(messages'[sid]) :
                  messages'[sid][k].sender = "ai" =>
                      SentBy(messages'[sid], k, "ai") <= SentBy(messages'[sid], k, "user")
       /\ \A sid \in DOMAIN messages :
              \A k \in (Len(messages[sid]) + 1) .. Len(messages'[sid]) :
                  messages'[sid][k].sender = "ai" =>
                      /\ resp'.op = "relay_return" /\ resp'.req.sessionId = sid
                      /\ k = Len(messages'[sid])
                      /\ \E i \in 1 .. (k - 1) :
                             /\ messages'[sid][i].sender = "user"
                             /\ messages'[sid][i].messageId = resp'.req.dto.messageId
                             /\ messages'[sid][i].content = resp'.req.dto.content]_vars

\* C16 witness: two overlapping calls with distinct ids whose replies arrived
\* in the opposite order: the call that appended log[1] got the last reply.
C16_Witness ==
    /\ resp.op = "relay_return" /\ Succeeded(resp)
    /\ inflight = << >>
    /\ Len(Log(resp.req.sessionId)) = 4
    /\ LET log == Log(resp.req.sessionId)
       IN  /\ log[1].sender = "user" /\ log[2].sender = "user"
           /\ log[3].sender = "ai" /\ log[4].sender = "ai"
           /\ log[1].messageId = resp.req.dto.messageId
           /\ log[2].messageId # resp.req.dto.messageId
           /\ log[4] = Data(resp).aiMessage

\* ------------------------------------------------------- during the upstream call
\* the send_message coroutines suspended in the upstream POST for session sid
Pending(sid) == {c \in DOMAIN inflight : inflight[c].dto.sessionId = sid}

\* C17: while a send_message is suspended in its upstream POST, every handler
\* can run to its response, on the same session and on any other: each
\* create_session, query_messages and end_session request, and each further
\* send_message for which the model has a coroutine and room in the logs. A
\* query on the session answered in that window lists the suspended call's
\* user message and, of the session's user messages, leaves at least the
\* suspended ones without an AI reply.
C17_NoLockAcrossUpstreamCall ==
    /\ inflight # << >> =>
           /\ \A dto \in CreateAiSessionDTOs : ENABLED create_session(dto)
           /\ \A q \in DefaultQueries : ENABLED query_messages(q)
           /\ \A sessionId \in SessionIds : ENABLED end_session(sessionId)
           /\ (Cardinality(DOMAIN inflight) < NumCallers /\ Stored + 2 <= MaxLog) =>
                  \A sessionId \in SessionIds, dto \in SessionSends :
                      \E c \in Callers : ENABLED send_message(c, sessionId, dto, "cafe0002")
    /\ (IsQuery(resp) /\ resp.req.pageNum = 1 /\ resp.req.startMessageId = None
            /\ resp.req.pageSize >= Len(Log(resp.req.sessionId))) =>
           LET recs == Data(resp).records
               log == Log(resp.req.sessionId)
           IN  /\ \A c \in Pending(resp.req.sessionId) :
                      \E k \in 1 .. Len(recs) :
                          /\ recs[k].messageId = inflight[c].dto.messageId
                          /\ recs[k].content = inflight[c].dto.content
               /\ Len(recs) = Len(log)
               /\ SentBy(log, Len(log), "ai") + Cardinality(Pending(resp.req.sessionId))
                      <= SentBy(log, Len(log), "user")

\* C17 witness: a query on s1 answered while a send_message on s1 is suspended
\* lists that call's user message alone, and in the same window (at a later
\* clock reading than the user message's) the other session was ended.
C17_Witness ==
    /\ IsQuery(resp) /\ resp.req.sessionId = "s1"
    /\ Pending("s1") # {}
    /\ Data(resp).total = 1
    /\ Data(resp).records[1].messageId = "cafe0001"
    /\ Log("s1")[1].sender = "user"
    /\ "s2" \in DOMAIN sessions /\ Status(sessions["s2"]) = "ended"
    /\ StrLess(Log("s1")[1].sendTime, sessions["s2"].endTime)

\* -------------------------------------------------------------------- timeout
\* the outcomes of an upstream that does not respond in time
Timeouts == {"connect_timeout", "total_timeout"}

\* C18: a send_message suspended in its upstream POST is resumed when the
\* timeout of the POST expires, and it then completes through the fallback
\* text: the step appends an AI message carrying the "service unavailable"
\* text to the session's log and returns it in a success response.
C18_TimeoutResolvesByFallback ==
    [][\A c \in Callers, outcome \in Timeouts, text \in UpstreamTexts :
           RelayReturn(c, outcome, text) =>
               /\ c \notin DOMAIN inflight'
               /\ Succeeded(resp')
               /\ Data(resp').aiMessage.content = Unavailable(Raised(outcome))
               /\ messages'[inflight[c].dto.sessionId] =
                      Append(messages[inflight[c].dto.sessionId], Data(resp').aiMessage)]_vars

\* ------------------------------------------------------------ the two dicts
\* C19: sessions and messages always have the same keys: a key enters both in
\* one create_session step, with an empty log, and no step removes a key from
\* either; so send_message, which looks the id up in sessions, and
\* query_messages, which looks it up in messages, report "session not found"
\* for the same ids.
C19_SameKeys ==
    [][/\ DOMAIN sessions' = DOMAIN messages'
       /\ DOMAIN sessions \subseteq DOMAIN sessions'
       /\ DOMAIN messages \subseteq DOMAIN messages'
       /\ \A sid \in DOMAIN sessions' \ DOMAIN sessions :
              /\ resp'.op = "create_session" /\ resp'.req.sessionId = sid
              /\ sid \notin DOMAIN messages /\ messages'[sid] = << >>
       /\ resp'.op = "query_messages" =>
              (Failed(resp', 404, MsgSessionNotFound) <=>
                   resp'.req.sessionId \notin DOMAIN sessions)
       /\ (resp'.op = "send_message" /\ resp'.req.sessionId = resp'.req.dto.sessionId) =>
              (Failed(resp', 404, MsgSessionNotFound) <=>
                   resp'.req.sessionId \notin DOMAIN messages)]_vars

\* C19 witness: a query on an id that is in neither dict is refused while the
\* other id is in both, its session ended and its log not empty.
C19_Witness ==
    /\ resp.op = "query_messages" /\ Failed(resp, 404, MsgSessionNotFound)
    /\ resp.req.sessionId \notin DOMAIN sessions \cup DOMAIN messages
    /\ \E sid \in DOMAIN sessions \cap DOMAIN messages :
           Status(sessions[sid]) = "ended" /\ Len(Log(sid)) > 0

\* ------------------------------------------------------------------ isolation
\* the session a handler step is addressed to (the sessionId of its path)
Addressed(r) == IF r.op = "end_session" THEN r.req ELSE r.req.sessionId

\* C20: a send_message step (either half), a query_messages step or an
\* end_session step addressed to one session leaves the stored dict (id,
\* title, createTime, status, endTime) and the log of every other session as
\* they were, under every interleaving, and every message in a log carries
\* the id of the session whose log it is in.
C20_SessionsIsolated ==
    [][/\ \A sid \in DOMAIN messages' :
              \A k \in 1 .. Len(messages'[sid]) : messages'[sid][k].sessionId = sid
       /\ resp'.op \in {"send_message", "relay_return", "query_messages", "end_session"} =>
              \A other \in DOMAIN sessions \ {Addressed(resp')} :
                  /\ other \in DOMAIN sessions' /\ sessions'[other] = sessions[other]
                  /\ other \in DOMAIN messages' /\ messages'[other] = messages[other]]_vars

\* C20 witness: a reply was appended to one session's log while a call on the
\* other session, which is ended and holds messages, is suspended.
C20_Witness ==
    /\ resp.op = "relay_return" /\ Succeeded(resp)
    /\ \E other \in DOMAIN sessions \ {resp.req.sessionId} :
           /\ Status(sessions[other]) = "ended"
           /\ Len(Log(other)) > 0
           /\ Pending(other) # {}
    /\ Status(sessions[resp.req.sessionId]) = "open"

====
